---- MODULE Spec2Model ----
(***************************************************************************)
(* Session and dispatch layer of zwave-js-server (src/src/lib/server.ts):  *)
(* class Client (one per websocket), class Clients (the registry) and the  *)
(* entry points ZwavejsServer.start and ZwavejsServer.destroy.             *)
(*                                                                         *)
(* JavaScript runs every callback to completion, so each callback (and     *)
(* each stretch of an async function between two awaits) is one action.    *)
(***************************************************************************)
EXTENDS Integers, Sequences, FiniteSets, TLC

\* ---------------------------------------------------------------- bounds
MaxSessions == 2      \* sockets ever handed to addSocket
MaxFrames == 2        \* inbound frames, all sockets together
MaxEvents == 1        \* upstream driver events
MaxOrderedEvents == 2 \* upstream driver events where their order is checked
MaxRegistries == 2    \* Clients objects that accepted a socket or are current
MaxShutdowns == 1     \* calls of Clients.disconnect counted per registry

Sessions == 1..MaxSessions
Registries == 1..MaxRegistries

\* A property that is absent from a JavaScript object reads as undefined.
\* Message ids of the model are the positive integers; 0 stands for undefined.
Undefined == 0

\* ZwavejsServer.start() creates a new Clients object each time it is called.
\* A replaced registry lives on through the timer, the forwarder and the
\* socket listeners it created, so the registry fields are kept per registry.
\* A registry that never accepted a socket is referenced by nothing but
\* this.sockets: when it is replaced, the new registry takes its number.
VARIABLES
    sock,              \* socket.readyState per session: none/open/closing/closed
    receiveEvents,     \* Client.receiveEvents
    outstandingPing,   \* Client._outstandingPing
    clients,           \* per registry: Clients.clients, an array of sessions
    pingInterval,      \* per registry: Clients.pingInterval !== undefined
    eventForwarder,    \* per registry: Clients.eventForwarder !== undefined
    cleanupScheduled,  \* per registry: Clients.cleanupScheduled
    timeouts,          \* per registry: queued setTimeout(cleanupClients, 0) tasks
    log,               \* per session: the frames received, each with its dispatch state
    outbox,            \* per session: every text handed to socket.send, in order
    emitted,           \* number of upstream events observed by the forwarders
    rejected,          \* some receiveMessage promise rejected
    shutdowns,         \* per registry: calls of Clients.disconnect since it
                       \* accepted its first socket (saturating)
    intervals,         \* per registry: setInterval timers that are running
    subscriptions,     \* per registry: EventForwarders created and started
    peerClosed,        \* per session: the peer's close frame arrived or the
                       \* connection dropped, so no further frame is delivered
    registry,          \* ZwavejsServer.sockets: 0 while undefined, else the
                       \* number of the current registry
    owner              \* per session: the registry whose addSocket accepted
                       \* it, 0 before that

vars == <<sock, receiveEvents, outstandingPing, clients, pingInterval,
          eventForwarder, cleanupScheduled, timeouts, log, outbox,
          emitted, rejected, shutdowns, intervals, subscriptions,
          peerClosed, registry, owner>>

\* ------------------------------------------------------------ helpers
Min(a, b) == IF a < b THEN a ELSE b

Range(f) == {f[i] : i \in DOMAIN f}

\* Mutant of SelectSeq2: the filter keeps every element.
SelectSeq2KeepsAll(seq, keep) == seq

RECURSIVE SelectSeq2(_, _)
\* Array.prototype.filter with a predicate on sessions given as a set.
SelectSeq2(seq, keep) ==
    IF seq = <<>> THEN <<>>
    ELSE IF Head(seq) \in keep
         THEN <<Head(seq)>> \o SelectSeq2(Tail(seq), keep)
         ELSE SelectSeq2(Tail(seq), keep)

RECURSIVE Sum(_, _)
\* Sum of f over the set S.
Sum(f, S) ==
    IF S = {} THEN 0
    ELSE LET x == CHOOSE y \in S : TRUE IN f[x] + Sum(f, S \ {x})

\* Frames received so far.
FramesReceived == Sum([s \in Sessions |-> Len(log[s])], Sessions)

\* A frame of s was answered by a function that returned no promise: the
\* await of its value queued the rest of receiveMessage as a microtask.
MicrotaskQueued(s) == \E i \in DOMAIN log[s] : log[s][i].state = "microtask"

\* Queued microtasks run before the event loop takes up any other callback,
\* so while one is queued only what the same chunk of socket data holds
\* (frames, pongs, a close frame of the same socket) can come first.
SameTurn(s) == \A t \in Sessions \ {s} : ~MicrotaskQueued(t)
Idle == \A t \in Sessions : ~MicrotaskQueued(t)

\* ------------------------------------------------------------ transport
\* The "message" and "pong" listeners are registered unconditionally; the
\* socket delivers frames while it is open and also after the server called
\* close(), until the peer's close frame arrives or the connection drops.
CanReceive(s) == sock[s] \in {"open", "closing"} /\ ~peerClosed[s]

\* get isConnected(): readyState === OPEN
isConnected(s) == sock[s] = "open"

\* socket.close(): an open socket starts its closing handshake; closing an
\* already closing or closed socket changes nothing.
SocketClose(st) == IF st = "open" THEN "closing" ELSE st

\* JSON.stringify drops properties whose value is undefined.
Stringify(obj) ==
    IF "messageId" \in DOMAIN obj /\ obj.messageId = Undefined
    THEN [k \in (DOMAIN obj) \ {"messageId"} |-> obj[k]]
    ELSE obj

\* ------------------------------------------------------------ inbound frames
\* A frame is the text handed to the "message" listener.  text tells what
\* JSON.parse makes of it: "notjson" (a SyntaxError), "null" (the value null)
\* or "value" (an object or primitive whose properties can be read).
\* ownToString tells whether the parsed object has an own property named
\* toString; a value that comes out of JSON.parse is never callable, so such
\* an object cannot be converted to a primitive value or a property key.
NotJson == [text |-> "notjson", messageId |-> Undefined,
            hasCommand |-> FALSE, command |-> <<>>, ownToString |-> FALSE]
JsonNull == [text |-> "null", messageId |-> Undefined,
             hasCommand |-> FALSE, command |-> <<>>, ownToString |-> FALSE]
JsonValue(id, cmd) == [text |-> "value", messageId |-> id,
                       hasCommand |-> TRUE, command |-> cmd,
                       ownToString |-> FALSE]
JsonNoCommand(id) == [text |-> "value", messageId |-> id,
                      hasCommand |-> FALSE, command |-> <<>>,
                      ownToString |-> FALSE]
\* { messageId, command, toString: 1, valueOf: 1 }
JsonOwnToString(id, cmd) == [text |-> "value", messageId |-> id,
                             hasCommand |-> TRUE, command |-> cmd,
                             ownToString |-> TRUE]

\* Command strings, as sequences of tokens; "." is the separator character.
Commands ==
    { <<"start_listening">>,
      <<"controller", ".", "a">>,
      <<"driver", ".", "get_config">>,
      <<"bogus", ".", "a">>,
      <<"hasOwnProperty", ".", "a">> }

\* Command strings sent in a message that has an own toString property.
OwnToStringCommands == { <<"hasOwnProperty", ".", "a">> }

\* The frames a client may send as its id-th frame.
Frames(id) ==
    {NotJson, JsonNull, JsonNoCommand(id)}
        \cup {JsonValue(id, c) : c \in Commands}
        \cup {JsonOwnToString(id, c) : c \in OwnToStringCommands}

\* JSON.parse(data)
JSONparse(data) ==
    IF data.text = "notjson"
    THEN [ok |-> FALSE, isNull |-> FALSE, value |-> data]
    ELSE [ok |-> TRUE, isNull |-> data.text = "null", value |-> data]

RECURSIVE SplitFirst(_)
\* const [instance] = command.split("."): the text before the first "."
SplitFirst(cmd) ==
    IF cmd = <<>> \/ Head(cmd) = "." THEN <<>>
    ELSE <<Head(cmd)>> \o SplitFirst(Tail(cmd))

\* Names every object inherits from Object.prototype as functions.
ObjectPrototypeFunctions ==
    { <<"constructor">>, <<"__defineGetter__">>, <<"__defineSetter__">>,
      <<"hasOwnProperty">>, <<"__lookupGetter__">>, <<"__lookupSetter__">>,
      <<"isPrototypeOf">>, <<"propertyIsEnumerable">>, <<"toString">>,
      <<"valueOf">>, <<"toLocaleString">> }

\* Those of them that throw a TypeError whenever they are called with the
\* message as their only argument (the second argument must be a function).
ObjectPrototypeThrowing == {<<"__defineGetter__">>, <<"__defineSetter__">>}

\* Those of them that convert their argument, the message, to a property
\* key: they throw a TypeError when the message cannot be converted.
ObjectPrototypeKeyed ==
    { <<"hasOwnProperty">>, <<"propertyIsEnumerable">>,
      <<"__lookupGetter__">>, <<"__lookupSetter__">> }

\* this.instanceHandlers[instance]: a property read on a plain object, which
\* finds the three own handlers and also what Object.prototype provides.
InstanceHandlers(instance) ==
    CASE instance = <<"controller">> -> "controller"
      [] instance = <<"driver">> -> "driver"
      [] instance = <<"node">> -> "node"
      [] instance \in ObjectPrototypeThrowing -> "inheritedThrows"
      [] instance \in ObjectPrototypeKeyed -> "inheritedKeyed"
      [] instance \in ObjectPrototypeFunctions
                         \ (ObjectPrototypeThrowing \cup ObjectPrototypeKeyed)
             -> "inheritedFunction"
      [] instance = <<"__proto__">> -> "inheritedObject"
      [] OTHER -> "undefined"

\* The call this.instanceHandlers[instance](msg) throws before it returns
\* anything that could be awaited: the driver handler, a value that is not
\* callable, and the inherited functions that reject their argument.
HandlerThrows(handler, msg) ==
    \/ handler \in {"driver", "inheritedObject", "inheritedThrows"}
    \/ handler = "inheritedKeyed" /\ msg.ownToString

\* What an awaited ControllerMessageHandler.handle / NodeMessageHandler.handle
\* may do: resolve, throw a BaseError with its errorCode, throw a ZWaveError
\* of the driver (it carries a code and a message, and is not a BaseError),
\* or throw anything else.
HandlerOutcomes ==
    { [kind |-> "ok", errorCode |-> "none"],
      [kind |-> "BaseError", errorCode |-> "nodeNotFound"],
      [kind |-> "ZWaveError", errorCode |-> "none",
       zwaveErrorCode |-> "Controller_MessageDropped",
       zwaveErrorMessage |-> "message dropped"],
      [kind |-> "Error", errorCode |-> "none"] }

\* ------------------------------------------------------------ outbound
VersionMessage ==
    [type |-> "version", driverVersion |-> "TBD",
     serverVersion |-> "version", homeId |-> "homeId"]
ResultSuccess(messageId, result) ==
    [type |-> "result", success |-> TRUE, messageId |-> messageId,
     result |-> result]
ResultError(messageId, errorCode) ==
    [type |-> "result", success |-> FALSE, messageId |-> messageId,
     errorCode |-> errorCode]
EventMessage(event) == [type |-> "event", event |-> event]

\* sendData(data): this.socket.send(JSON.stringify(data)).  The outbox
\* records the call; socket.send does not throw on a closing or closed socket.
sendData(s, data) ==
    outbox' = [outbox EXCEPT ![s] = Append(@, Stringify(data))]

\* Mutant of sendVersion: the Version Envelope is never sent.
sendVersionNever(s) == UNCHANGED outbox

sendVersion(s) == sendData(s, VersionMessage)
sendResultSuccess(s, messageId, result) ==
    sendData(s, ResultSuccess(messageId, result))
sendResultError(s, messageId, errorCode) ==
    sendData(s, ResultError(messageId, errorCode))
\* Mutant of sendEvent: the Event Envelope overtakes what was sent after
\* the Version Envelope.
sendEventOvertakes(box, s, event) ==
    [box EXCEPT ![s] =
        <<Head(@)>> \o <<Stringify(EventMessage(event))>> \o Tail(@)]

sendEvent(box, s, event) ==
    [box EXCEPT ![s] = Append(@, Stringify(EventMessage(event)))]

\* ------------------------------------------------------------ Client
Logged(s, data, state) ==
    log' = [log EXCEPT ![s] = Append(@, [data |-> data, state |-> state])]

\* Mutant of ReceiveNotJson: the parse error is swallowed without closing.
ReceiveNotJsonKeepsOpen(s, data) ==
    /\ ~JSONparse(data).ok
    /\ Logged(s, data, "done")
    /\ UNCHANGED <<sock, receiveEvents, outbox, rejected>>

\* JSON.parse throws: close the socket, send nothing.
ReceiveNotJson(s, data) ==
    /\ ~JSONparse(data).ok
    /\ sock' = [sock EXCEPT ![s] = SocketClose(@)]
    /\ Logged(s, data, "done")
    /\ UNCHANGED <<receiveEvents, outbox, rejected>>

\* JSON.parse returns null: reading msg.command throws a TypeError inside the
\* try block, and reading msg.messageId throws again inside the catch block,
\* so the promise of receiveMessage rejects and nothing is sent or closed.
ReceiveNull(s, data) ==
    /\ JSONparse(data).ok /\ JSONparse(data).isNull
    /\ rejected' = TRUE
    /\ Logged(s, data, "done")
    /\ UNCHANGED <<sock, receiveEvents, outbox>>

\* Mutant of ReceiveStartListening: the command toggles the subscription.
ReceiveStartListeningToggles(s, data) ==
    LET msg == JSONparse(data).value IN
    /\ JSONparse(data).ok /\ ~JSONparse(data).isNull
    /\ msg.hasCommand /\ msg.command = <<"start_listening">>
    /\ sendResultSuccess(s, msg.messageId, "state")
    /\ receiveEvents' = [receiveEvents EXCEPT ![s] = ~@]
    /\ Logged(s, data, "done")
    /\ UNCHANGED <<sock, rejected>>

\* msg.command === "start_listening": reply with the state dump, then
\* subscribe the client to events.
ReceiveStartListening(s, data) ==
    LET msg == JSONparse(data).value IN
    /\ JSONparse(data).ok /\ ~JSONparse(data).isNull
    /\ msg.hasCommand /\ msg.command = <<"start_listening">>
    /\ sendResultSuccess(s, msg.messageId, "state")
    /\ receiveEvents' = [receiveEvents EXCEPT ![s] = TRUE]
    /\ Logged(s, data, "done")
    /\ UNCHANGED <<sock, rejected>>

\* Mutant of ReceiveSnapshotFails: the client is subscribed although the
\* snapshot failed.
ReceiveSnapshotFailsButListens(s, data) ==
    LET msg == JSONparse(data).value IN
    /\ JSONparse(data).ok /\ ~JSONparse(data).isNull
    /\ msg.hasCommand /\ msg.command = <<"start_listening">>
    /\ sendResultError(s, msg.messageId, "unknownError")
    /\ receiveEvents' = [receiveEvents EXCEPT ![s] = TRUE]
    /\ Logged(s, data, "done")
    /\ UNCHANGED <<sock, rejected>>

\* msg.command === "start_listening" when dumpState, or JSON.stringify of
\* what it returned, throws: the statement that sets receiveEvents is not
\* reached and the catch block reports unknownError.
ReceiveSnapshotFails(s, data) ==
    LET msg == JSONparse(data).value IN
    /\ JSONparse(data).ok /\ ~JSONparse(data).isNull
    /\ msg.hasCommand /\ msg.command = <<"start_listening">>
    /\ sendResultError(s, msg.messageId, "unknownError")
    /\ Logged(s, data, "done")
    /\ UNCHANGED <<sock, receiveEvents, rejected>>

\* msg.command is undefined: msg.command.split throws a TypeError, which the
\* catch block reports as unknownError.
ReceiveNoCommand(s, data) ==
    LET msg == JSONparse(data).value IN
    /\ JSONparse(data).ok /\ ~JSONparse(data).isNull
    /\ ~msg.hasCommand
    /\ sendResultError(s, msg.messageId, "unknownError")
    /\ Logged(s, data, "done")
    /\ UNCHANGED <<sock, receiveEvents, rejected>>

\* Any other command: look the handler up by the text before the first ".".
ReceiveCommand(s, data) ==
    LET msg == JSONparse(data).value
        handler == InstanceHandlers(SplitFirst(msg.command))
    IN
    /\ JSONparse(data).ok /\ ~JSONparse(data).isNull
    /\ msg.hasCommand /\ msg.command # <<"start_listening">>
    /\ \/ \* controller and node handlers are awaited: the reply is sent
          \* when the handler's promise settles
          /\ handler \in {"controller", "node"}
          /\ Logged(s, data, "pending")
          /\ UNCHANGED <<outbox>>
       \/ \* the driver handler throws a plain Error at once; __proto__ is
          \* truthy but not callable, and an inherited function that
          \* rejects its argument throws a TypeError
          /\ HandlerThrows(handler, msg)
          /\ sendResultError(s, msg.messageId, "unknownError")
          /\ Logged(s, data, "done")
       \/ \* a function inherited from Object.prototype is called like a
          \* handler; its return value is awaited, so the result is sent
          \* by a microtask
          /\ handler \in {"inheritedFunction", "inheritedKeyed"}
          /\ ~HandlerThrows(handler, msg)
          /\ Logged(s, data, "microtask")
          /\ UNCHANGED <<outbox>>
       \/ \* no handler: throw new UnknownCommandError(msg.command)
          /\ handler = "undefined"
          /\ sendResultError(s, msg.messageId, "unknownCommand")
          /\ Logged(s, data, "done")
    /\ UNCHANGED <<sock, receiveEvents, rejected>>

\* Mutant of receiveMessage: a frame is taken up only when no handler of the
\* session is pending.
receiveMessageSerial(s, data) ==
    /\ CanReceive(s)
    /\ SameTurn(s)
    /\ FramesReceived < MaxFrames
    /\ \A i \in DOMAIN log[s] : log[s][i].state # "pending"
    /\ \/ ReceiveNotJson(s, data)
       \/ ReceiveNull(s, data)
       \/ ReceiveStartListening(s, data)
       \/ ReceiveNoCommand(s, data)
       \/ ReceiveCommand(s, data)
    /\ UNCHANGED <<outstandingPing, clients, pingInterval, eventForwarder,
                   cleanupScheduled, timeouts, emitted, shutdowns,
                   intervals, subscriptions, peerClosed,
                   registry, owner>>

\* socket.on("message", data => this.receiveMessage(data)), up to the first
\* await or to the end.
receiveMessage(s, data) ==
    /\ CanReceive(s)
    /\ SameTurn(s)
    /\ FramesReceived < MaxFrames
    /\ \/ ReceiveNotJson(s, data)
       \/ ReceiveNull(s, data)
       \/ ReceiveStartListening(s, data)
       \/ ReceiveNoCommand(s, data)
       \/ ReceiveCommand(s, data)
    /\ UNCHANGED <<outstandingPing, clients, pingInterval, eventForwarder,
                   cleanupScheduled, timeouts, emitted, shutdowns,
                   intervals, subscriptions, peerClosed,
                   registry, owner>>

\* receiveMessage for a start_listening frame whose snapshot fails.
receiveMessageSnapshotFails(s, data) ==
    /\ CanReceive(s)
    /\ SameTurn(s)
    /\ FramesReceived < MaxFrames
    /\ ReceiveSnapshotFails(s, data)
    /\ UNCHANGED <<outstandingPing, clients, pingInterval, eventForwarder,
                   cleanupScheduled, timeouts, emitted, shutdowns,
                   intervals, subscriptions, peerClosed,
                   registry, owner>>

\* Mutant of HandlerComplete: the BaseError branch of the catch block lacks
\* its return, so an unknownError result follows the classified one.
HandlerCompleteNoReturn(s, i, outcome) ==
    /\ i \in DOMAIN log[s]
    /\ log[s][i].state \in {"pending", "microtask"}
    /\ SameTurn(s)
    /\ \A j \in 1..(i - 1) : log[s][j].state # "microtask"
    /\ log[s][i].state = "microtask" => outcome.kind = "ok"
    /\ LET msg == JSONparse(log[s][i].data).value
           value == IF log[s][i].state = "microtask" THEN "inherited"
                                                     ELSE "result"
       IN
       \/ /\ outcome.kind = "ok"
          /\ sendResultSuccess(s, msg.messageId, value)
       \/ /\ outcome.kind = "BaseError"
          /\ outbox' = [outbox EXCEPT ![s] =
                 Append(Append(@, Stringify(ResultError(msg.messageId,
                                                        outcome.errorCode))),
                        Stringify(ResultError(msg.messageId, "unknownError")))]
       \/ /\ outcome.kind \notin {"ok", "BaseError"}
          /\ sendResultError(s, msg.messageId, "unknownError")
    /\ log' = [log EXCEPT ![s][i].state = "done"]
    /\ UNCHANGED <<sock, receiveEvents, outstandingPing, clients, pingInterval,
                   eventForwarder, cleanupScheduled, timeouts, emitted,
                   rejected, shutdowns,
                   intervals, subscriptions, peerClosed,
                   registry, owner>>

\* Mutant of HandlerComplete: socket.send throws on a socket that is not
\* open; the throw of the send in the catch block escapes receiveMessage.
HandlerCompleteSendThrows(s, i, outcome) ==
    /\ i \in DOMAIN log[s]
    /\ log[s][i].state \in {"pending", "microtask"}
    /\ SameTurn(s)
    /\ \A j \in 1..(i - 1) : log[s][j].state # "microtask"
    /\ log[s][i].state = "microtask" => outcome.kind = "ok"
    /\ LET msg == JSONparse(log[s][i].data).value
           value == IF log[s][i].state = "microtask" THEN "inherited"
                                                     ELSE "result"
       IN
       IF sock[s] # "open"
       THEN rejected' = TRUE /\ UNCHANGED outbox
       ELSE /\ UNCHANGED rejected
            /\ \/ /\ outcome.kind = "ok"
                  /\ sendResultSuccess(s, msg.messageId, value)
               \/ /\ outcome.kind = "BaseError"
                  /\ sendResultError(s, msg.messageId, outcome.errorCode)
               \/ /\ outcome.kind \notin {"ok", "BaseError"}
                  /\ sendResultError(s, msg.messageId, "unknownError")
    /\ log' = [log EXCEPT ![s][i].state = "done"]
    /\ UNCHANGED <<sock, receiveEvents, outstandingPing, clients, pingInterval,
                   eventForwarder, cleanupScheduled, timeouts, emitted,
                   shutdowns, intervals, subscriptions, peerClosed,
                   registry, owner>>

\* receiveMessage after its await: the handler's promise settled, or the
\* microtask that follows the await of a value that is no promise runs.
\* Microtasks run in the order in which they were queued.
HandlerComplete(s, i, outcome) ==
    /\ i \in DOMAIN log[s]
    /\ log[s][i].state \in {"pending", "microtask"}
    /\ SameTurn(s)
    /\ \A j \in 1..(i - 1) : log[s][j].state # "microtask"
    /\ log[s][i].state = "microtask" => outcome.kind = "ok"
    /\ LET msg == JSONparse(log[s][i].data).value
           value == IF log[s][i].state = "microtask" THEN "inherited"
                                                     ELSE "result"
       IN
       \/ /\ outcome.kind = "ok"
          /\ sendResultSuccess(s, msg.messageId, value)
       \/ /\ outcome.kind = "BaseError"
          /\ sendResultError(s, msg.messageId, outcome.errorCode)
       \/ /\ outcome.kind \notin {"ok", "BaseError"}
          /\ sendResultError(s, msg.messageId, "unknownError")
    /\ log' = [log EXCEPT ![s][i].state = "done"]
    /\ UNCHANGED <<sock, receiveEvents, outstandingPing, clients, pingInterval,
                   eventForwarder, cleanupScheduled, timeouts, emitted,
                   rejected, shutdowns,
                   intervals, subscriptions, peerClosed,
                   registry, owner>>

\* socket.on("pong", ...)
Pong(s) ==
    /\ CanReceive(s)
    /\ SameTurn(s)
    /\ outstandingPing' = [outstandingPing EXCEPT ![s] = FALSE]
    /\ UNCHANGED <<sock, receiveEvents, clients, pingInterval, eventForwarder,
                   cleanupScheduled, timeouts, log, outbox, emitted,
                   rejected, shutdowns,
                   intervals, subscriptions, peerClosed,
                   registry, owner>>

\* Client.checkAlive().  Nothing in the program calls it.
checkAlive(s) ==
    /\ IF outstandingPing[s]
       THEN /\ sock' = [sock EXCEPT ![s] = SocketClose(@)]
            /\ UNCHANGED outstandingPing
       ELSE /\ outstandingPing' = [outstandingPing EXCEPT ![s] = TRUE]
            /\ UNCHANGED sock
    /\ UNCHANGED <<receiveEvents, clients, pingInterval, eventForwarder,
                   cleanupScheduled, timeouts, log, outbox, emitted,
                   rejected, shutdowns,
                   intervals, subscriptions, peerClosed,
                   registry, owner>>

\* Client.disconnect(): this.socket.close()
ClientDisconnect(socks, s) == [socks EXCEPT ![s] = SocketClose(@)]

\* ------------------------------------------------------------ Clients
\* The interval callback set up by addSocket: keep the connected clients,
\* call disconnect() on the others and drop them.
SweepTick(r) ==
    /\ Idle
    /\ intervals[r] > 0
    /\ LET connected == {s \in Sessions : isConnected(s)}
           dead == Range(clients[r]) \ connected
       IN
       /\ clients' = [clients EXCEPT ![r] = SelectSeq2(@, connected)]
       /\ sock' = [s \in Sessions |->
                     IF s \in dead THEN SocketClose(sock[s]) ELSE sock[s]]
    /\ UNCHANGED <<receiveEvents, outstandingPing, pingInterval, eventForwarder,
                   cleanupScheduled, timeouts, log, outbox, emitted,
                   rejected, shutdowns,
                   intervals, subscriptions, peerClosed,
                   registry, owner>>

RECURSIVE FanOutNoLiveCheck(_, _, _)
\* Mutant of FanOut: the callback does not test client.isConnected.
FanOutNoLiveCheck(cs, data, box) ==
    IF cs = <<>> THEN box
    ELSE LET c == Head(cs)
             next == IF receiveEvents[c] THEN sendEvent(box, c, data) ELSE box
         IN FanOutNoLiveCheck(Tail(cs), data, next)

RECURSIVE FanOut(_, _, _)
\* The event forwarder callback: for (const client of this.clients)
\*   if (client.receiveEvents && client.isConnected) client.sendEvent(data)
FanOut(cs, data, box) ==
    IF cs = <<>> THEN box
    ELSE LET c == Head(cs)
             next == IF receiveEvents[c] /\ isConnected(c)
                     THEN sendEvent(box, c, data)
                     ELSE box
         IN FanOut(Tail(cs), data, next)

\* The origins an OutgoingEvent may name.
EventSources == {"controller", "node", "driver"}

RECURSIVE Deliver(_, _, _, _)
\* Every started EventForwarder runs the forwarding callback once per event,
\* over the clients of the registry that created it.
Deliver(n, cs, data, box) ==
    IF n = 0 THEN box ELSE Deliver(n - 1, cs, data, FanOut(cs, data, box))

RECURSIVE DeliverAll(_, _, _)
\* The driver calls the forwarders of the registries r, r + 1, ... in the
\* order in which they subscribed.
DeliverAll(r, data, box) ==
    IF r > MaxRegistries THEN box
    ELSE DeliverAll(r + 1, data,
                    Deliver(subscriptions[r], clients[r], data, box))

\* The upstream driver emits an event and every started forwarder hands it
\* to its callback.
ForwardEventUpTo(source, max) ==
    /\ Idle
    /\ \E r \in Registries : subscriptions[r] > 0
    /\ emitted < max
    /\ emitted' = emitted + 1
    /\ LET data == [source |-> source, event |-> emitted + 1] IN
       outbox' = DeliverAll(1, data, outbox)
    /\ UNCHANGED <<sock, receiveEvents, outstandingPing, clients, pingInterval,
                   eventForwarder, cleanupScheduled, timeouts, log, rejected,
                   shutdowns,
                   intervals, subscriptions, peerClosed,
                   registry, owner>>

ForwardEvent(source) == ForwardEventUpTo(source, MaxEvents)

\* Mutant of addSocket: the timer and the forwarder are created for every
\* socket, without the presence checks.
addSocketAlwaysCreates(s) ==
    /\ Idle
    /\ registry > 0
    /\ sock[s] = "none"
    /\ \A t \in Sessions : t < s => sock[t] # "none"
    /\ sock' = [sock EXCEPT ![s] = "open"]
    /\ receiveEvents' = [receiveEvents EXCEPT ![s] = FALSE]
    /\ outstandingPing' = [outstandingPing EXCEPT ![s] = FALSE]
    /\ owner' = [owner EXCEPT ![s] = registry]
    /\ sendVersion(s)
    /\ clients' = [clients EXCEPT ![registry] = Append(@, s)]
    /\ intervals' = [intervals EXCEPT ![registry] = @ + 1]
    /\ pingInterval' = [pingInterval EXCEPT ![registry] = TRUE]
    /\ subscriptions' = [subscriptions EXCEPT ![registry] = @ + 1]
    /\ eventForwarder' = [eventForwarder EXCEPT ![registry] = TRUE]
    /\ UNCHANGED <<cleanupScheduled, timeouts, log, emitted, rejected,
                   shutdowns, peerClosed, registry>>

\* this.sockets!.addSocket(socket): the "connection" listener hands a
\* freshly opened socket to the current registry.  The interval timer and
\* the EventForwarder are created only when the field that holds them is
\* undefined.
addSocket(s) ==
    /\ Idle
    /\ registry > 0
    /\ sock[s] = "none"
    /\ \A t \in Sessions : t < s => sock[t] # "none"
    /\ sock' = [sock EXCEPT ![s] = "open"]
    /\ receiveEvents' = [receiveEvents EXCEPT ![s] = FALSE]
    /\ outstandingPing' = [outstandingPing EXCEPT ![s] = FALSE]
    /\ owner' = [owner EXCEPT ![s] = registry]
    /\ sendVersion(s)
    /\ clients' = [clients EXCEPT ![registry] = Append(@, s)]
    /\ intervals' = [intervals EXCEPT ![registry] =
                         IF pingInterval[registry] THEN @ ELSE @ + 1]
    /\ pingInterval' = [pingInterval EXCEPT ![registry] = TRUE]
    /\ subscriptions' = [subscriptions EXCEPT ![registry] =
                             IF eventForwarder[registry] THEN @ ELSE @ + 1]
    /\ eventForwarder' = [eventForwarder EXCEPT ![registry] = TRUE]
    /\ UNCHANGED <<cleanupScheduled, timeouts, log, emitted, rejected,
                   shutdowns, peerClosed, registry>>

\* The peer's close frame arrives or the connection drops, on an open
\* socket or on one the server has already closed: the socket is not open
\* afterwards and delivers no more frames; its "close" event follows.
TransportClose(s) ==
    /\ CanReceive(s)
    /\ SameTurn(s)
    /\ sock' = [sock EXCEPT ![s] = "closing"]
    /\ peerClosed' = [peerClosed EXCEPT ![s] = TRUE]
    /\ UNCHANGED <<receiveEvents, outstandingPing, clients, pingInterval,
                   eventForwarder, cleanupScheduled, timeouts, log, outbox,
                   emitted, rejected, shutdowns,
                   intervals, subscriptions, registry, owner>>

\* Mutant of scheduleClientCleanup: a timeout is queued for every
\* notification, whether or not one is pending.
scheduleClientCleanupAlways(r) ==
    /\ cleanupScheduled' = [cleanupScheduled EXCEPT ![r] = TRUE]
    /\ timeouts' = [timeouts EXCEPT ![r] = @ + 1]

\* scheduleClientCleanup() of registry r
scheduleClientCleanup(r) ==
    IF cleanupScheduled[r]
    THEN UNCHANGED <<cleanupScheduled, timeouts>>
    ELSE /\ cleanupScheduled' = [cleanupScheduled EXCEPT ![r] = TRUE]
         /\ timeouts' = [timeouts EXCEPT ![r] = @ + 1]

\* Mutant of CloseEvent: the close listener does not schedule a cleanup.
CloseEventSilent(s) ==
    /\ Idle
    /\ sock[s] = "closing"
    /\ sock' = [sock EXCEPT ![s] = "closed"]
    /\ UNCHANGED <<receiveEvents, outstandingPing, clients, pingInterval,
                   eventForwarder, log, outbox, emitted, rejected,
                   shutdowns, cleanupScheduled, timeouts,
                   intervals, subscriptions, peerClosed,
                   registry, owner>>

\* socket.on("close", ...): the socket is closed and the registry that
\* accepted it is told.
CloseEvent(s) ==
    /\ Idle
    /\ sock[s] = "closing"
    /\ sock' = [sock EXCEPT ![s] = "closed"]
    /\ scheduleClientCleanup(owner[s])
    /\ UNCHANGED <<receiveEvents, outstandingPing, clients, pingInterval,
                   eventForwarder, log, outbox, emitted, rejected,
                   shutdowns,
                   intervals, subscriptions, peerClosed,
                   registry, owner>>

\* cleanupClients(), run by the timeout that scheduleClientCleanup queued.
cleanupClients(r) ==
    /\ Idle
    /\ timeouts[r] > 0
    /\ timeouts' = [timeouts EXCEPT ![r] = @ - 1]
    /\ cleanupScheduled' = [cleanupScheduled EXCEPT ![r] = FALSE]
    /\ clients' = [clients EXCEPT ![r] =
                       SelectSeq2(@, {s \in Sessions : isConnected(s)})]
    /\ UNCHANGED <<sock, receiveEvents, outstandingPing, pingInterval,
                   eventForwarder, log, outbox, emitted, rejected,
                   shutdowns,
                   intervals, subscriptions, peerClosed,
                   registry, owner>>

RECURSIVE DisconnectAllButLast(_, _)
\* Mutant of DisconnectAll: the loop stops one client early.
DisconnectAllButLast(cs, socks) ==
    IF Len(cs) <= 1 THEN socks
    ELSE DisconnectAllButLast(Tail(cs), ClientDisconnect(socks, Head(cs)))

RECURSIVE DisconnectAll(_, _)
\* this.clients.forEach((client) => client.disconnect())
DisconnectAll(cs, socks) ==
    IF cs = <<>> THEN socks
    ELSE DisconnectAll(Tail(cs), ClientDisconnect(socks, Head(cs)))

\* Some socket was accepted by registry r: its timer, its forwarder or the
\* close listeners of its sockets refer to it.
Referenced(r) == \E s \in Sessions : owner[s] = r

\* Clients.disconnect() of the current registry, called by
\* ZwavejsServer.destroy(); before the first start() destroy() finds no
\* registry and changes nothing.
disconnect ==
    /\ Idle
    /\ registry > 0
    /\ intervals' = [intervals EXCEPT ![registry] =
                         IF pingInterval[registry] THEN @ - 1 ELSE @]
    /\ pingInterval' = [pingInterval EXCEPT ![registry] = FALSE]
    /\ sock' = DisconnectAll(clients[registry], sock)
    /\ clients' = [clients EXCEPT ![registry] = <<>>]
    /\ shutdowns' = [shutdowns EXCEPT ![registry] =
                         IF Referenced(registry) THEN Min(@ + 1, MaxShutdowns) ELSE @]
    /\ UNCHANGED <<receiveEvents, outstandingPing, eventForwarder,
                   cleanupScheduled, timeouts, log, outbox, emitted,
                   rejected, subscriptions, peerClosed, registry, owner>>

\* ZwavejsServer.start(): this.sockets = new Clients(this.driver).  The
\* connections that arrive from now on are handed to the new registry; the
\* replaced one keeps its clients, its timer and its forwarder.
start ==
    /\ Idle
    /\ IF registry = 0
       THEN registry' = 1
       ELSE IF ~Referenced(registry)
            THEN registry' = registry
            ELSE registry < MaxRegistries /\ registry' = registry + 1
    /\ UNCHANGED <<sock, receiveEvents, outstandingPing, clients,
                   pingInterval, eventForwarder, cleanupScheduled, timeouts,
                   log, outbox, emitted, rejected, shutdowns, intervals,
                   subscriptions, peerClosed, owner>>

\* ------------------------------------------------------------ specification
Init ==
    /\ sock = [s \in Sessions |-> "none"]
    /\ receiveEvents = [s \in Sessions |-> FALSE]
    /\ outstandingPing = [s \in Sessions |-> FALSE]
    /\ clients = [r \in Registries |-> <<>>]
    /\ pingInterval = [r \in Registries |-> FALSE]
    /\ eventForwarder = [r \in Registries |-> FALSE]
    /\ cleanupScheduled = [r \in Registries |-> FALSE]
    /\ timeouts = [r \in Registries |-> 0]
    /\ log = [s \in Sessions |-> <<>>]
    /\ outbox = [s \in Sessions |-> <<>>]
    /\ emitted = 0
    /\ rejected = FALSE
    /\ shutdowns = [r \in Registries |-> 0]
    /\ intervals = [r \in Registries |-> 0]
    /\ subscriptions = [r \in Registries |-> 0]
    /\ peerClosed = [s \in Sessions |-> FALSE]
    /\ registry = 0
    /\ owner = [s \in Sessions |-> 0]

Next ==
    \/ \E s \in Sessions : addSocket(s)
    \/ \E s \in Sessions : \E data \in Frames(Len(log[s]) + 1) :
           receiveMessage(s, data)
    \/ \E s \in Sessions : \E i \in 1..MaxFrames : \E o \in HandlerOutcomes :
           HandlerComplete(s, i, o)
    \/ \E s \in Sessions : Pong(s)
    \/ \E s \in Sessions : TransportClose(s)
    \/ \E s \in Sessions : CloseEvent(s)
    \/ \E r \in Registries : SweepTick(r)
    \/ \E r \in Registries : cleanupClients(r)
    \/ \E source \in EventSources : ForwardEvent(source)
    \/ disconnect
    \/ start

Spec == Init /\ [][Next]_vars

\* The same program with room for MaxOrderedEvents upstream events.
OrderNext ==
    \/ \E s \in Sessions : addSocket(s)
    \/ \E s \in Sessions : \E data \in Frames(Len(log[s]) + 1) :
           receiveMessage(s, data)
    \/ \E s \in Sessions : \E i \in 1..MaxFrames : \E o \in HandlerOutcomes :
           HandlerComplete(s, i, o)
    \/ \E s \in Sessions : Pong(s)
    \/ \E s \in Sessions : TransportClose(s)
    \/ \E s \in Sessions : CloseEvent(s)
    \/ \E r \in Registries : SweepTick(r)
    \/ \E r \in Registries : cleanupClients(r)
    \/ \E source \in EventSources :
           ForwardEventUpTo(source, MaxOrderedEvents)
    \/ disconnect
    \/ start

OrderSpec == Init /\ [][OrderNext]_vars

\* The same program when the state snapshot may fail.
SnapshotNext ==
    \/ \E s \in Sessions : addSocket(s)
    \/ \E s \in Sessions : \E data \in Frames(Len(log[s]) + 1) :
           receiveMessage(s, data)
    \/ \E s \in Sessions : \E data \in Frames(Len(log[s]) + 1) :
           receiveMessageSnapshotFails(s, data)
    \/ \E s \in Sessions : \E i \in 1..MaxFrames : \E o \in HandlerOutcomes :
           HandlerComplete(s, i, o)
    \/ \E s \in Sessions : Pong(s)
    \/ \E s \in Sessions : TransportClose(s)
    \/ \E s \in Sessions : CloseEvent(s)
    \/ \E r \in Registries : SweepTick(r)
    \/ \E r \in Registries : cleanupClients(r)
    \/ \E source \in EventSources : ForwardEvent(source)
    \/ disconnect
    \/ start

SnapshotSpec == Init /\ [][SnapshotNext]_vars

\* The event loop runs the continuation of every handler whose promise
\* settles, and the handlers considered here do settle.
FairSpec ==
    /\ Init /\ [][Next]_vars
    /\ \A s \in Sessions : \A i \in 1..MaxFrames :
           WF_vars(\E o \in HandlerOutcomes : HandlerComplete(s, i, o))

\* The first queued microtask of s runs.
RunMicrotask(s) ==
    \E i \in 1..MaxFrames : \E o \in HandlerOutcomes :
        /\ i \in DOMAIN log[s]
        /\ log[s][i].state = "microtask"
        /\ HandlerComplete(s, i, o)

\* The event loop runs the queued microtasks, every "close" event that a
\* closing socket emits and every timeout that was queued.
FairCleanupSpec ==
    /\ Init /\ [][Next]_vars
    /\ \A s \in Sessions : WF_vars(RunMicrotask(s))
    /\ \A s \in Sessions : WF_vars(CloseEvent(s))
    /\ \A r \in Registries : WF_vars(cleanupClients(r))

\* ------------------------------------------------------------ vocabulary of the claims
\* Positions in the outbox of s holding a Result Envelope with this messageId.
ResultsFor(s, id) ==
    {k \in DOMAIN outbox[s] :
        /\ outbox[s][k].type = "result"
        /\ "messageId" \in DOMAIN outbox[s][k]
        /\ outbox[s][k].messageId = id}

\* Positions in the outbox of s holding an envelope of this type.
EnvelopesOfType(box, s, type) == {k \in DOMAIN box[s] : box[s][k].type = type}

\* A frame that decodes to a Command Envelope: { messageId, command, ... }.
IsCommandEnvelope(data) ==
    data.text = "value" /\ data.hasCommand /\ data.messageId # Undefined

\* Session s is in the tracked list of the registry that accepted it.
Tracked(s) == owner[s] > 0 /\ s \in Range(clients[owner[s]])

\* The handler groups the session registers.
RegisteredGroups == {<<"controller">>, <<"driver">>, <<"node">>}

\* ------------------------------------------------------------ C1
\* The number of Result Envelopes sent for a Command Envelope: none while its
\* handler is still running, exactly one from the moment its dispatch has
\* finished, whatever the handler did and in whatever order handlers finish.
C1_ExactlyOneResult ==
    \A s \in Sessions : \A i \in DOMAIN log[s] :
        IsCommandEnvelope(log[s][i].data) =>
            Cardinality(ResultsFor(s, log[s][i].data.messageId))
                = (IF log[s][i].state = "done" THEN 1 ELSE 0)

\* Two commands of one session whose handlers finished in the opposite order:
\* the second command's result was sent before the first one's.
C1_Witness ==
    \E s \in Sessions :
        /\ Len(log[s]) = 2
        /\ \A i \in 1..2 : IsCommandEnvelope(log[s][i].data)
                            /\ log[s][i].state = "done"
        /\ \E k1 \in ResultsFor(s, log[s][1].data.messageId) :
           \E k2 \in ResultsFor(s, log[s][2].data.messageId) : k2 < k1

\* C1: at every moment a Command Envelope has at most one Result Envelope
\* (C1_ExactlyOneResult), and under fair handler completion every received
\* Command Envelope is eventually answered by its one Result Envelope.  A
\* frame that was received stays in the log and an envelope that was sent
\* stays in the outbox, so "eventually answered" is stated as: again and
\* again, the i-th frame of s is no received command or it has its result.
C1_EventuallyExactlyOne ==
    /\ []C1_ExactlyOneResult
    /\ \A s \in Sessions : \A i \in 1..MaxFrames :
        []<>( \/ ~(i \in DOMAIN log[s] /\ IsCommandEnvelope(log[s][i].data))
              \/ /\ i \in DOMAIN log[s]
                 /\ Cardinality(ResultsFor(s, log[s][i].data.messageId)) = 1 )

\* ------------------------------------------------------------ C2
\* C2: whenever the forwarder hands an upstream event to the registry, a
\* session is sent the Event Envelope if and only if, at that instant, its
\* receiveEvents flag is set and its socket is open; every other session's
\* outbox is left as it was.
C2_FanOutIffListeningAndOpen ==
    [][\A source \in EventSources :
          ForwardEvent(source) =>
              \A s \in Sessions :
                  outbox'[s] =
                      IF receiveEvents[s] /\ sock[s] = "open"
                      THEN Append(outbox[s],
                                  EventMessage([source |-> source,
                                                event |-> emitted + 1]))
                      ELSE outbox[s]]_vars

\* An event went out to a listening session while another accepted session,
\* which had not asked for events or was no longer open, got none.
C2_Witness ==
    /\ emitted > 0
    /\ \E s \in Sessions : \E t \in Sessions :
        /\ s # t
        /\ EnvelopesOfType(outbox, s, "event") # {}
        /\ sock[t] # "none"
        /\ EnvelopesOfType(outbox, t, "event") = {}

\* ------------------------------------------------------------ C3
\* C3: each sweep calls checkAlive() on every tracked session: a tracked open
\* session that was not awaiting a pong is probed and awaits one afterwards,
\* and one that was still awaiting the pong of the previous sweep is
\* disconnected, which is how a session that never acknowledges is
\* force-disconnected by the second consecutive sweep.
C3_SweepChecksAlive ==
    [][\A r \in Registries :
          SweepTick(r) =>
              \A s \in Range(clients[r]) :
                  sock[s] = "open" =>
                      IF outstandingPing[s]
                      THEN sock'[s] # "open"
                      ELSE outstandingPing'[s]]_vars

\* ------------------------------------------------------------ C4
\* C4: a command whose group (the text before the first ".") is not a
\* registered handler group is answered with exactly one failure Result
\* Envelope whose errorCode is unknownCommand; no handler is started and the
\* connection stays open.
C4_UnknownGroupFails ==
    [][\A s \in Sessions : \A data \in Frames(Len(log[s]) + 1) :
          ( /\ receiveMessage(s, data)
            /\ data.text = "value" /\ data.hasCommand
            /\ data.command # <<"start_listening">>
            /\ SplitFirst(data.command) \notin RegisteredGroups )
          =>
          ( /\ outbox'[s] = Append(outbox[s],
                  Stringify(ResultError(data.messageId, "unknownCommand")))
            /\ log'[s][Len(log'[s])].state = "done"
            /\ sock'[s] = sock[s] )]_vars

\* ------------------------------------------------------------ C5
\* C5: a frame that is not well-formed JSON makes the session close its
\* socket and send nothing; its receiveEvents flag, the other sessions and
\* the registry are left as they were.
C5_MalformedCloses ==
    [][\A s \in Sessions : \A data \in Frames(Len(log[s]) + 1) :
          (receiveMessage(s, data) /\ data.text = "notjson") =>
              /\ sock'[s] # "open"
              /\ outbox' = outbox
              /\ receiveEvents' = receiveEvents
              /\ \A t \in Sessions \ {s} : sock'[t] = sock[t]
              /\ clients' = clients]_vars

\* A listening session received a malformed frame last: it is no longer open,
\* still flagged as listening, was sent no result for that frame, and another
\* session is still open.
C5_Witness ==
    \E s \in Sessions : \E t \in Sessions \ {s} :
        /\ Len(log[s]) = 2
        /\ log[s][1].data.command = <<"start_listening">>
        /\ log[s][2].data.text = "notjson"
        /\ sock[s] # "open"
        /\ receiveEvents[s]
        /\ Cardinality(EnvelopesOfType(outbox, s, "result")) = 1
        /\ sock[t] = "open"

\* ------------------------------------------------------------ C6
\* C6: every frame whose processing has finished ended in exactly one of two
\* ways: it failed to decode and the connection was closed without a result,
\* or it decoded and exactly one Result Envelope with the frame's messageId
\* was sent; no frame ends with neither.
C6_ResultOrClose ==
    \A s \in Sessions : \A i \in DOMAIN log[s] :
        log[s][i].state = "done" =>
            IF log[s][i].data.text = "notjson"
            THEN sock[s] # "open"
            ELSE \/ Cardinality(ResultsFor(s, log[s][i].data.messageId)) = 1
                 \/ /\ log[s][i].data.messageId = Undefined
                    /\ \E k \in EnvelopesOfType(outbox, s, "result") :
                           "messageId" \notin DOMAIN outbox[s][k]

\* ------------------------------------------------------------ C7
\* C7: every start_listening command on an open session is answered with one
\* successful snapshot result and leaves receiveEvents set, however often it
\* is repeated; and no step of the program ever resets receiveEvents.
C7_StartListeningIdempotent ==
    [][ /\ \A s \in Sessions : receiveEvents[s] => receiveEvents'[s]
        /\ \A s \in Sessions : \A data \in Frames(Len(log[s]) + 1) :
              ( /\ receiveMessage(s, data)
                /\ data.text = "value" /\ data.hasCommand
                /\ data.command = <<"start_listening">> )
              =>
              ( /\ outbox'[s] = Append(outbox[s],
                      ResultSuccess(data.messageId, "state"))
                /\ receiveEvents'[s] ) ]_vars

\* A session sent start_listening twice and got two snapshot results; it is
\* listening.
C7_Witness ==
    \E s \in Sessions :
        /\ Len(log[s]) = 2
        /\ \A i \in 1..2 : log[s][i].data.command = <<"start_listening">>
        /\ \A i \in 1..2 :
               \E k \in ResultsFor(s, log[s][i].data.messageId) :
                   outbox[s][k].success /\ outbox[s][k].result = "state"
        /\ receiveEvents[s]

\* ------------------------------------------------------------ C8
\* C8: Clients.disconnect() leaves its registry with no sweep timer and no
\* tracked session, and every session that was tracked has had its socket
\* closed; called on a registry with no timer and no tracked session (a
\* second call in a row, or a registry that never had a session) it changes
\* nothing.
C8_ShutdownIdempotent ==
    [][disconnect =>
          LET r == registry IN
          /\ ~pingInterval'[r] /\ intervals'[r] = 0
          /\ clients'[r] = <<>>
          /\ \A s \in Range(clients[r]) : sock'[s] # "open"
          /\ \A s \in Sessions \ Range(clients[r]) : sock'[s] = sock[s]
          /\ (clients[r] = <<>> /\ ~pingInterval[r]) =>
                UNCHANGED <<sock, receiveEvents, outstandingPing, clients,
                            pingInterval, eventForwarder, cleanupScheduled,
                            timeouts, log, outbox, emitted, rejected,
                            intervals, subscriptions, peerClosed, registry,
                            owner>>]_vars

\* disconnect() has run on a registry and closed a socket that has not yet
\* reported its close.
C8_Witness ==
    \E r \in Registries :
        /\ shutdowns[r] > 0
        /\ clients[r] = <<>>
        /\ ~pingInterval[r]
        /\ \E s \in Sessions : owner[s] = r /\ sock[s] = "closing"

\* ------------------------------------------------------------ C9
\* C9: once disconnect() has been called on a registry, its sweep timer
\* does not run, its Event Forwarder delivers nothing to it any more and no
\* session of it is sent an Event Envelope, also when a connection is
\* accepted afterwards.
C9_StoppedAfterShutdown ==
    [][\A r \in Registries :
          shutdowns[r] > 0 =>
              /\ ~pingInterval'[r]
              /\ ~eventForwarder'[r]
              /\ \A s \in Sessions :
                    owner'[s] = r =>
                        EnvelopesOfType(outbox', s, "event")
                            = EnvelopesOfType(outbox, s, "event")]_vars

\* ------------------------------------------------------------ C10
\* C10: every accepted session has been sent exactly one Version Envelope,
\* as the first text of its outbox; a socket not yet accepted has been sent
\* nothing.
C10_VersionFirst ==
    \A s \in Sessions :
        IF sock[s] = "none"
        THEN outbox[s] = <<>>
        ELSE /\ outbox[s] # <<>>
             /\ EnvelopesOfType(outbox, s, "version") = {1}

\* A session was sent a result and an event, both after its Version Envelope.
C10_Witness ==
    \E s \in Sessions :
        /\ EnvelopesOfType(outbox, s, "version") = {1}
        /\ EnvelopesOfType(outbox, s, "result") # {}
        /\ EnvelopesOfType(outbox, s, "event") # {}

\* ------------------------------------------------------------ C11
\* C11: when a handler fails with a failure of the device-control subsystem
\* (a ZWaveError), the failure Result Envelope sent for the command names the
\* domain-failure kind and carries the nested domain error code and message.
C11_DomainFailurePreserved ==
    [][\A s \in Sessions : \A i \in 1..MaxFrames : \A o \in HandlerOutcomes :
          (HandlerComplete(s, i, o) /\ o.kind = "ZWaveError") =>
              LET e == outbox'[s][Len(outbox'[s])] IN
              /\ e.type = "result" /\ ~e.success
              /\ e.errorCode = "zwaveError"
              /\ "zwaveErrorCode" \in DOMAIN e
              /\ e.zwaveErrorCode = o.zwaveErrorCode
              /\ "zwaveErrorMessage" \in DOMAIN e
              /\ e.zwaveErrorMessage = o.zwaveErrorMessage]_vars


\* ------------------------------------------------------------ C12
\* Positions in the outbox of s holding the Event Envelope of upstream event e.
EventsFor(s, e) ==
    {k \in EnvelopesOfType(outbox, s, "event") : outbox[s][k].event.event = e}

\* C12: a registry never has more than one running sweep timer nor more
\* than one started Event Forwarder: its timer runs exactly while its
\* pingInterval is set, its forwarder was started exactly once if the field
\* is set, both exist from its first addSocket on (the timer until
\* shutdown), and no session is sent the Event Envelope of one upstream
\* event twice.
C12_Singletons ==
    /\ \A r \in Registries :
           /\ intervals[r] = (IF pingInterval[r] THEN 1 ELSE 0)
           /\ subscriptions[r] = (IF eventForwarder[r] THEN 1 ELSE 0)
           /\ Referenced(r) => eventForwarder[r]
           /\ (Referenced(r) /\ shutdowns[r] = 0) => pingInterval[r]
    /\ \A s \in Sessions : \A e \in 1..MaxEvents :
           Cardinality(EventsFor(s, e)) <= 1

\* One registry accepted every socket of the model, it has one timer and one
\* forwarder, and a listening session was sent an event once.
C12_Witness ==
    \E r \in Registries :
        /\ \A s \in Sessions : owner[s] = r
        /\ intervals[r] = 1 /\ subscriptions[r] = 1
        /\ \E s \in Sessions : Cardinality(EventsFor(s, 1)) = 1


\* ------------------------------------------------------------ C13
\* C13: at most one deferred cleanup task is queued at any time and
\* cleanupScheduled is true exactly when one is queued; a close notification
\* schedules a pass when none is pending and queues nothing when one is; the
\* pass clears the flag when it runs.
C13_OnePendingCleanup ==
    /\ [](\A r \in Registries :
              /\ timeouts[r] \in {0, 1}
              /\ cleanupScheduled[r] <=> timeouts[r] = 1)
    /\ [][\A s \in Sessions : CloseEvent(s) =>
              LET r == owner[s] IN
              /\ cleanupScheduled'[r] /\ timeouts'[r] = 1
              /\ cleanupScheduled[r] => timeouts' = timeouts]_vars
    /\ [][\A r \in Registries : cleanupClients(r) =>
              (~cleanupScheduled'[r] /\ timeouts'[r] = 0)]_vars

\* A burst: two sessions tracked by one registry have both delivered their
\* close notification and a single cleanup pass is pending.
C13_Witness ==
    \E r \in Registries :
        /\ \A s \in Sessions : sock[s] = "closed" /\ s \in Range(clients[r])
        /\ cleanupScheduled[r]
        /\ timeouts[r] = 1


\* ------------------------------------------------------------ C14
\* C14: a sweep tick and a cleanup pass each leave the tracked list equal to
\* the previously tracked sessions whose socket is open at that instant, in
\* the same order; the sessions that are kept stay open, and those the sweep
\* drops have had close() called on them, so none of them is open afterwards.
C14_KeepsExactlyOpen ==
    [][\A r \in Registries :
          (SweepTick(r) \/ cleanupClients(r)) =>
              LET open(s) == sock[s] = "open" IN
              /\ clients'[r] = SelectSeq(clients[r], open)
              /\ Range(clients'[r])
                     = {s \in Range(clients[r]) : sock[s] = "open"}
              /\ \A s \in Range(clients'[r]) : sock'[s] = "open"
              /\ \A s \in Range(clients[r]) \ Range(clients'[r]) :
                     sock'[s] = SocketClose(sock[s]) /\ sock'[s] # "open"
              /\ \A q \in Registries \ {r} : clients'[q] = clients[q]]_vars

\* A sweep has dropped session 1, whose socket was closing and whose close
\* notification has not arrived, and has kept the open session 2.
C14_Witness ==
    /\ clients[1] = <<2>>
    /\ owner[1] = 1
    /\ sock[1] = "closing"
    /\ sock[2] = "open"
    /\ timeouts[1] = 0 /\ ~cleanupScheduled[1]
    /\ shutdowns[1] = 0


\* ------------------------------------------------------------ C15
\* Frame i of session s was dispatched and its handler has not settled.
Pending(s, i) == i \in DOMAIN log[s] /\ log[s][i].state = "pending"

\* C15: while the handler of one command is pending, the event loop, once
\* the microtasks of the current turn have run, still takes up everything
\* else: every frame that a socket of the same or of another session
\* delivers is dispatched, every other pending handler can complete and send
\* its result, and the sweep and the event fan-out run.
C15_PendingBlocksOnlyItself ==
    \A s \in Sessions : \A i \in 1..MaxFrames :
        (Pending(s, i) /\ Idle) =>
            /\ \A t \in Sessions :
                   (CanReceive(t) /\ FramesReceived < MaxFrames) =>
                       \A data \in Frames(Len(log[t]) + 1) :
                           ENABLED receiveMessage(t, data)
            /\ \A t \in Sessions : \A j \in 1..MaxFrames :
                   (Pending(t, j) /\ <<t, j>> # <<s, i>>) =>
                       \A o \in HandlerOutcomes :
                           ENABLED HandlerComplete(t, j, o)
            /\ \A r \in Registries : intervals[r] > 0 => ENABLED SweepTick(r)
            /\ ((\E r \in Registries : subscriptions[r] > 0)
                    /\ emitted < MaxEvents) =>
                   \A source \in EventSources : ENABLED ForwardEvent(source)

\* The first command of a session is still pending while the second one,
\* received after it, has been answered.
C15_Witness ==
    \E s \in Sessions :
        /\ Pending(s, 1)
        /\ Len(log[s]) = 2
        /\ ResultsFor(s, 1) = {}
        /\ ResultsFor(s, 2) # {}


\* ------------------------------------------------------------ C16
\* The upstream events whose Event Envelope was sent to s, in sending order.
RECURSIVE EventsSent(_)
EventsSent(box) ==
    IF box = <<>> THEN <<>>
    ELSE IF Head(box).type = "event"
         THEN <<Head(box).event.event>> \o EventsSent(Tail(box))
         ELSE EventsSent(Tail(box))

\* C16: the upstream events are numbered in the order the forwarder observed
\* them; the events sent to a session are a subsequence of 1..emitted in that
\* order: their numbers increase strictly, so none is reordered or repeated.
C16_EventOrderKept ==
    \A s \in Sessions :
        LET ev == EventsSent(outbox[s]) IN
        /\ \A k \in DOMAIN ev : ev[k] \in 1..emitted
        /\ \A k \in DOMAIN ev : \A l \in DOMAIN ev : k < l => ev[k] < ev[l]

\* One session was sent both events in order while another, which started
\* listening later, was sent only the second.
C16_Witness ==
    \E s \in Sessions : \E t \in Sessions :
        /\ EventsSent(outbox[s]) = <<1, 2>>
        /\ EventsSent(outbox[t]) = <<2>>


\* ------------------------------------------------------------ C17
\* C17: a send on a socket that is no longer open (the result of a handler
\* that completes after the close, or of a frame that arrives while the
\* server is closing the socket) does nothing but hand one envelope to the
\* socket: the step leaves the socket states, the tracked list and the
\* timers as they were and no failure escapes receiveMessage; the Version
\* Envelope and the fan-out only run on open sockets.
C17_DeadSendHarmless ==
    /\ [][\A s \in Sessions :
              (outbox'[s] # outbox[s] /\ sock[s] \in {"closing", "closed"}) =>
                  /\ Len(outbox'[s]) = Len(outbox[s]) + 1
                  /\ outbox'[s][Len(outbox'[s])].type = "result"
                  /\ rejected' = rejected
                  /\ sock' = sock /\ clients' = clients
                  /\ intervals' = intervals
                  /\ subscriptions' = subscriptions
                  /\ registry' = registry]_vars
    /\ [][\A s \in Sessions : \A i \in 1..MaxFrames : \A o \in HandlerOutcomes :
              (HandlerComplete(s, i, o) /\ sock[s] # "open") =>
                  rejected' = rejected]_vars

\* The first frame of a session was malformed and made the server close the
\* socket; the result of the second frame was handed to the socket after
\* that and nothing failed.
C17_Witness ==
    \E s \in Sessions :
        /\ Len(log[s]) = 2
        /\ log[s][1].data.text = "notjson"
        /\ sock[s] # "open"
        /\ ResultsFor(s, 2) # {}
        /\ ~rejected


\* ------------------------------------------------------------ C18
\* C18: a tracked session whose socket has closed has a cleanup pass pending
\* from its close notification on, and every tracked session whose socket is
\* no longer open is eventually dropped from the tracked list of its
\* registry.  A socket that left the open state never returns to it, so a
\* tracked session with such a socket stops being one only by being dropped:
\* "eventually dropped" is stated as: again and again, s is not a tracked
\* session whose socket is closing or closed.
C18_ClosedEventuallyDropped ==
    /\ [](\A s \in Sessions :
              (Tracked(s) /\ sock[s] = "closed") =>
                  (cleanupScheduled[owner[s]] /\ timeouts[owner[s]] = 1))
    /\ [][\A s \in Sessions : sock[s] \in {"closing", "closed"} =>
                                    sock'[s] \in {"closing", "closed"}]_vars
    /\ \A s \in Sessions :
           []<>(~(Tracked(s) /\ sock[s] \in {"closing", "closed"}))

\* Session 1 has closed and delivered its close notification, the cleanup
\* pass it scheduled has run, and only the open session 2 is tracked.
C18_Witness ==
    /\ sock[1] = "closed"
    /\ sock[2] = "open"
    /\ owner[1] = 1
    /\ clients[1] = <<2>>
    /\ ~cleanupScheduled[1] /\ timeouts[1] = 0
    /\ shutdowns[1] = 0


\* ------------------------------------------------------------ C19
\* Dispatch of this decoded frame raises a failure before any handler is
\* awaited: the value is null or has no command, the snapshot of a
\* start_listening command fails (snapshotFails), the handler group does not
\* exist, or the call of what the lookup found throws.
FailsInDispatch(data, snapshotFails) ==
    /\ JSONparse(data).ok
    /\ \/ JSONparse(data).isNull
       \/ ~data.hasCommand
       \/ data.command = <<"start_listening">> /\ snapshotFails
       \/ /\ data.command # <<"start_listening">>
          /\ LET handler == InstanceHandlers(SplitFirst(data.command)) IN
             handler = "undefined" \/ HandlerThrows(handler, data)

\* The errorCode of a failure raised in dispatch: UnknownCommandError is the
\* classified failure raised there, everything else is unclassified.
DispatchErrorCode(data) ==
    IF /\ ~JSONparse(data).isNull /\ data.hasCommand
       /\ data.command # <<"start_listening">>
       /\ InstanceHandlers(SplitFirst(data.command)) = "undefined"
    THEN "unknownCommand" ELSE "unknownError"

\* The errorCode the catch block sends for a failed handler.
OutcomeErrorCode(o) ==
    IF o.kind = "BaseError" THEN o.errorCode ELSE "unknownError"

\* C19: every failure raised during dispatch, synchronously or by an awaited
\* handler, ends in one failure Result Envelope for the frame, carrying the
\* errorCode of a classified failure or unknownError for any other one; the
\* socket stays as it was, receiveEvents is unchanged and nothing escapes
\* receiveMessage.
C19_FailuresClassified ==
    /\ [][\A s \in Sessions : \A data \in Frames(Len(log[s]) + 1) :
              \/ receiveMessage(s, data) /\ FailsInDispatch(data, FALSE)
              \/ /\ receiveMessageSnapshotFails(s, data)
                 /\ FailsInDispatch(data, TRUE)
              =>
                  /\ outbox'[s] = Append(outbox[s],
                         Stringify(ResultError(data.messageId,
                                               DispatchErrorCode(data))))
                  /\ sock' = sock /\ receiveEvents' = receiveEvents
                  /\ rejected' = rejected]_vars
    /\ [][\A s \in Sessions : \A i \in 1..MaxFrames : \A o \in HandlerOutcomes :
              (HandlerComplete(s, i, o) /\ o.kind # "ok") =>
                  /\ outbox'[s] = Append(outbox[s],
                         Stringify(ResultError(log[s][i].data.messageId,
                                               OutcomeErrorCode(o))))
                  /\ sock' = sock /\ receiveEvents' = receiveEvents
                  /\ rejected' = rejected]_vars

\* C19 for every failure but the one of the frame null.
C19_ClassifiedButNull ==
    /\ [][\A s \in Sessions : \A data \in Frames(Len(log[s]) + 1) :
              \/ /\ receiveMessage(s, data) /\ FailsInDispatch(data, FALSE)
                 /\ ~JSONparse(data).isNull
              \/ /\ receiveMessageSnapshotFails(s, data)
                 /\ FailsInDispatch(data, TRUE)
              =>
                  /\ outbox'[s] = Append(outbox[s],
                         Stringify(ResultError(data.messageId,
                                               DispatchErrorCode(data))))
                  /\ sock' = sock /\ receiveEvents' = receiveEvents
                  /\ rejected' = rejected]_vars
    /\ [][\A s \in Sessions : \A i \in 1..MaxFrames : \A o \in HandlerOutcomes :
              (HandlerComplete(s, i, o) /\ o.kind # "ok") =>
                  /\ outbox'[s] = Append(outbox[s],
                         Stringify(ResultError(log[s][i].data.messageId,
                                               OutcomeErrorCode(o))))
                  /\ sock' = sock /\ receiveEvents' = receiveEvents
                  /\ rejected' = rejected]_vars


\* ------------------------------------------------------------ C20
\* Positions in the outbox of s holding a successful snapshot result.
SnapshotResults(s) ==
    {k \in EnvelopesOfType(outbox, s, "result") :
        outbox[s][k].success /\ outbox[s][k].result = "state"}

\* C20: receiveEvents is set only by the step that has sent the snapshot
\* result of a start_listening command; a start_listening whose snapshot
\* fails is answered with a failure result and leaves receiveEvents as it
\* was; so a session that listens has been sent a snapshot result, and the
\* first Event Envelope of every session comes after one.
C20_ListenOnlyAfterSnapshot ==
    /\ [](\A s \in Sessions :
              /\ receiveEvents[s] => SnapshotResults(s) # {}
              /\ \A k \in EnvelopesOfType(outbox, s, "event") :
                     \E j \in SnapshotResults(s) : j < k)
    /\ [][\A s \in Sessions :
              (~receiveEvents[s] /\ receiveEvents'[s]) =>
                  \E data \in Frames(Len(log[s]) + 1) :
                      /\ data.hasCommand
                      /\ data.command = <<"start_listening">>
                      /\ outbox'[s] = Append(outbox[s],
                             Stringify(ResultSuccess(data.messageId, "state")))]_vars
    /\ [][\A s \in Sessions : \A data \in Frames(Len(log[s]) + 1) :
              receiveMessageSnapshotFails(s, data) =>
                  /\ outbox'[s] = Append(outbox[s],
                         Stringify(ResultError(data.messageId, "unknownError")))
                  /\ receiveEvents' = receiveEvents]_vars

\* The snapshot of a session's start_listening failed: it was sent the
\* failure result, does not listen, and was not sent the event that the other
\* session, whose snapshot succeeded, was sent.
C20_Witness ==
    \E s \in Sessions : \E t \in Sessions :
        /\ sock[s] = "open"
        /\ Len(log[s]) = 1
        /\ log[s][1].data.command = <<"start_listening">>
        /\ \E k \in ResultsFor(s, 1) : ~outbox[s][k].success
        /\ ~receiveEvents[s]
        /\ EventsFor(s, 1) = {}
        /\ EventsFor(t, 1) # {}

====
